---- MODULE Spec2Model ----
(***************************************************************************)
(* The parallel Google Maps scraper of scripts/scrape_google_maps_parallel *)
(* as a state machine: the progress file and the result file on disk, the  *)
(* run_scraper coroutine, its worker tasks and its periodic saver task.    *)
(* One action is one run of code between two suspension points of the      *)
(* asyncio event loop; the two file writes are split at the point where    *)
(* open(..., 'w') has truncated the file, which only a kill can observe.   *)
(***************************************************************************)
EXTENDS Naturals, Sequences, FiniteSets, TLC

\* ------------------------------------------------------------------ bounds

MaxEntities == 3
MaxWorkers == 2
\* Longest text handed to similarity.
MaxLen == 10
\* Longest name in a ProgressState handed to save_progress on its own.
MaxStr == 2
\* Most updates of one ProgressTracker.
MaxUpdates == 52
MaxQueue == 4

\* ------------------------------------------------------------------ inputs

\* One record of restaurants.json.  name is the text an f-string renders;
\* name_is_none says the JSON value was null (dba null in the DOHMH data).
\* answer is what the lookup source returns for the record's query.
Entity(n, a, c, isnone, ans) ==
    [name |-> n, address |-> a, category |-> c, name_is_none |-> isnone, answer |-> ans]

\* Records in file order.  The second and the fourth share name and address:
\* preprocess_data deduplicates by camis, not by (name, address).
Catalogue ==
    << Entity("c\"s", "2", "Thai", FALSE, "goto_error"),
       Entity("a", "1", "Thai", FALSE, "found"),
       Entity("b", "1", "Asian (Unspecified)", FALSE, "no_name"),
       Entity("a", "1", "Thai", FALSE, "extract_error"),
       Entity("None", "2", "Thai", TRUE, "found") >>

\* The restaurant lists a run may be given: the windows of the catalogue.
InputLists ==
    { SubSeq(Catalogue, i, i + MaxEntities - 1) : i \in 1..(Len(Catalogue) + 1 - MaxEntities) }

\* sample_size: 0 stands for None (both are falsy in "if sample_size:"); a
\* sample of the whole list or more runs as --all does.
SampleSizes == 0..(MaxEntities - 1)

Workers == 1..MaxWorkers

\* ------------------------------------------------------------- pure helpers

Range(s) == { s[i] : i \in 1..Len(s) }

RECURSIVE SelectIdx(_, _, _)
\* [i for i in s if i in keep], order kept
SelectIdx(s, keep, acc) ==
    IF s = <<>> THEN acc
    ELSE SelectIdx(Tail(s), keep, IF Head(s) \in keep THEN Append(acc, Head(s)) ELSE acc)

\* sub in s, for Python strings
Contains(s, sub) ==
    \E i \in 1..Len(s) : i + Len(sub) <= Len(s) + 1 /\ SubSeq(s, i, i + Len(sub) - 1) = sub

\* s[:n]
Prefix(s, n) == IF n >= Len(s) THEN s ELSE SubSeq(s, 1, n)

\* A key that leaves the address out.
restaurant_id_NameOnly(r) == r.name

\* f"{restaurant['name']}|{restaurant['address']}"
restaurant_id(r) == r.name \o "|" \o r.address

EmptyProgress == [scraped_ids |-> <<>>, results |-> <<>>, failed |-> <<>>]

\* ------------------------------------------------- json.dump and json.load

Quote == "\""
Backslash == "\\"
JSONDecodeError == "<JSONDecodeError>"

RECURSIVE Escape(_)
\* The body of a JSON string: a quote or a backslash gets a backslash before it.
Escape(s) ==
    IF s = "" THEN ""
    ELSE LET c == SubSeq(s, 1, 1)
         IN  (IF c \in {Quote, Backslash} THEN Backslash \o c ELSE c)
                 \o Escape(SubSeq(s, 2, Len(s)))

\* A str that is written with its quotes and nothing escaped.
json_dumps_str_NoEscape(s) == Quote \o s \o Quote

\* json.dump of a str
json_dumps_str(s) == Quote \o Escape(s) \o Quote

\* json.dump of a bool
json_dumps_bool(b) == IF b THEN "true" ELSE "false"

RECURSIVE ScanString(_, _, _)
\* The scanner of a JSON string from position i, after the opening quote: it
\* ends at the first quote no backslash precedes, which has to end the token.
ScanString(t, i, acc) ==
    IF i > Len(t) THEN JSONDecodeError
    ELSE LET c == SubSeq(t, i, i)
         IN  IF c = Quote THEN (IF i = Len(t) THEN acc ELSE JSONDecodeError)
             ELSE IF c = Backslash
                  THEN (IF i + 1 > Len(t) THEN JSONDecodeError
                        ELSE ScanString(t, i + 2, acc \o SubSeq(t, i + 1, i + 1)))
                  ELSE ScanString(t, i + 1, acc \o c)

\* json.load of a token: the literals true and false, or a quoted string.
json_loads(t) ==
    IF t = "true" THEN TRUE
    ELSE IF t = "false" THEN FALSE
    ELSE IF Len(t) >= 2 /\ SubSeq(t, 1, 1) = Quote THEN ScanString(t, 2, "")
    ELSE JSONDecodeError

\* One outcome as a JSON object; error stands for the presence of the key.
DumpResult(r) ==
    [original_name |-> json_dumps_str(r.original_name),
     original_address |-> json_dumps_str(r.original_address),
     found |-> json_dumps_bool(r.found),
     error |-> r.error]

LoadResult(o) ==
    [original_name |-> json_loads(o.original_name),
     original_address |-> json_loads(o.original_address),
     found |-> json_loads(o.found),
     error |-> o.error]

\* The document json.dump(progress, f) writes.
json_dump(pd) ==
    [scraped_ids |-> [i \in 1..Len(pd.scraped_ids) |-> json_dumps_str(pd.scraped_ids[i])],
     results |-> [i \in 1..Len(pd.results) |-> DumpResult(pd.results[i])],
     failed |-> [i \in 1..Len(pd.failed) |-> DumpResult(pd.failed[i])]]

\* The dict json.load(f) returns for a whole document.
json_load(doc) ==
    [scraped_ids |-> [i \in 1..Len(doc.scraped_ids) |-> json_loads(doc.scraped_ids[i])],
     results |-> [i \in 1..Len(doc.results) |-> LoadResult(doc.results[i])],
     failed |-> [i \in 1..Len(doc.failed) |-> LoadResult(doc.failed[i])]]

\* -------------------------------------------------- run_scraper, the queue

Indices(rs) == [i \in 1..Len(rs) |-> i]

\* A filter that tests the name where the code tests name|address.
FilterScraped_ByName(rs, scraped_ids) ==
    LET NotScraped == { i \in 1..Len(rs) : rs[i].name \notin Range(scraped_ids) }
    IN  SelectIdx(Indices(rs), NotScraped, <<>>)

\* remaining = [r for r in restaurants if f"{name}|{address}" not in scraped_set]
FilterScraped(rs, scraped_ids) ==
    LET NotScraped == { i \in 1..Len(rs) : restaurant_id(rs[i]) \notin Range(scraped_ids) }
    IN  SelectIdx(Indices(rs), NotScraped, <<>>)

\* An ordering that puts the specified records first.
Prioritize_SpecifiedFirst(rs, remaining) ==
    LET Unspec == { i \in 1..Len(rs) : Contains(rs[i].category, "Unspecified") }
        Spec_ == { i \in 1..Len(rs) : ~Contains(rs[i].category, "Unspecified") }
    IN  SelectIdx(remaining, Spec_, <<>>) \o SelectIdx(remaining, Unspec, <<>>)

\* unspecified + specified
Prioritize(rs, remaining) ==
    LET Unspec == { i \in 1..Len(rs) : Contains(rs[i].category, "Unspecified") }
        Spec_ == { i \in 1..Len(rs) : ~Contains(rs[i].category, "Unspecified") }
    IN  SelectIdx(remaining, Unspec, <<>>) \o SelectIdx(remaining, Spec_, <<>>)

\* if sample_size: remaining = remaining[:sample_size]
ApplySample(remaining, size) == IF size # 0 THEN Prefix(remaining, size) ELSE remaining

\* A queue whose sample is cut from the whole list, before the filter.
Remaining_SampleFirst(rs, scraped_ids, prio, size) ==
    LET all == IF prio THEN Prioritize(rs, Indices(rs)) ELSE Indices(rs)
        keep == Range(FilterScraped(rs, scraped_ids))
    IN  SelectIdx(ApplySample(all, size), keep, <<>>)

\* The tasks run_scraper enqueues, as positions in the restaurants list.
Remaining(rs, scraped_ids, prio, size) ==
    LET filtered == FilterScraped(rs, scraped_ids)
        ordered == IF prio THEN Prioritize(rs, filtered) ELSE filtered
    IN  ApplySample(ordered, size)

\* ------------------------------------------------ scrape_restaurant, worker

\* What one call of page.goto + extract_place_info can come to; session_lost
\* is a goto that raises because the browser behind the page is gone.
Outcomes == { "found", "no_name", "extract_error", "goto_error", "session_lost" }
TransientFailures == { "no_name", "extract_error", "goto_error" }

\* A result whose found is set whenever extract_place_info raised nothing.
ScrapeResult_FoundUnlessError(r, outcome) ==
    [original_name |-> r.name,
     original_address |-> r.address,
     found |-> (outcome \in {"found", "no_name"}),
     error |-> (outcome \in {"extract_error", "goto_error", "session_lost"})]

\* The result dict scrape_restaurant returns.
ScrapeResult(r, outcome) ==
    [original_name |-> r.name,
     original_address |-> r.address,
     found |-> (outcome = "found"),
     error |-> (outcome \in {"extract_error", "goto_error", "session_lost"})]

\* A recording that keeps a failure only when it carries an error text.
RecordOutcome_ErrorsOnly(pd, id, result) ==
    [scraped_ids |-> Append(pd.scraped_ids, id),
     results |-> IF result.found THEN Append(pd.results, result) ELSE pd.results,
     failed |-> IF result.found \/ ~result.error THEN pd.failed ELSE Append(pd.failed, result)]

\* The block under progress_lock.
RecordOutcome(pd, id, result) ==
    [scraped_ids |-> Append(pd.scraped_ids, id),
     results |-> IF result.found THEN Append(pd.results, result) ELSE pd.results,
     failed |-> IF result.found THEN pd.failed ELSE Append(pd.failed, result)]

\* --------------------------------------------------------- ProgressTracker

\* deque(maxlen=50)
recent_times_maxlen == 50

\* ProgressTracker(total); start_time is left out.
ProgressTracker(total) ==
    [total |-> total, completed |-> 0, found |-> 0, failed |-> 0, recent_times |-> <<>>]

\* A window that drops the newest duration when it is full.
deque_append_KeepOldest(d, x) ==
    IF Len(d) >= recent_times_maxlen THEN d ELSE Append(d, x)

\* deque.append under maxlen: a full deque drops its oldest item.
deque_append(d, x) ==
    IF Len(d) >= recent_times_maxlen THEN Append(Tail(d), x) ELSE Append(d, x)

\* ProgressTracker.update
update(self, found, duration) ==
    [self EXCEPT !.completed = @ + 1,
                 !.found = IF found THEN @ + 1 ELSE @,
                 !.failed = IF found THEN @ ELSE @ + 1,
                 !.recent_times = deque_append(@, duration)]

RECURSIVE SumSeq(_)
SumSeq(d) == IF d = <<>> THEN 0 ELSE Head(d) + SumSeq(Tail(d))

\* ProgressTracker.get_rate, in whole requests per minute
get_rate(self) ==
    IF self.recent_times = <<>> THEN 0
    ELSE (60 * Len(self.recent_times)) \div SumSeq(self.recent_times)

\* ProgressTracker.get_eta: the text, as its unit and its numbers
get_eta(self) ==
    IF self.recent_times = <<>> \/ self.completed = 0 THEN << "calculating..." >>
    ELSE LET eta_seconds == ((self.total - self.completed) * SumSeq(self.recent_times))
                                \div Len(self.recent_times)
         IN  IF eta_seconds < 60 THEN << "s", eta_seconds >>
             ELSE IF eta_seconds < 3600 THEN << "m", eta_seconds \div 60 >>
             ELSE << "h m", eta_seconds \div 3600, (eta_seconds % 3600) \div 60 >>

\* time.time() - start_time of one scrape, in whole seconds: a goto that
\* raises is back at once, a page that loads goes through the extraction waits.
Duration(outcome) == IF outcome \in {"goto_error", "session_lost"} THEN 1 ELSE 2

\* ------------------------------------------------------------------- state

VARIABLES
    restaurants,            \* restaurants.json, as load_restaurants returns it
    sample_size,            \* the --sample the operator runs with (0: --all)
    prioritize_unspecified, \* not --no-prioritize
    disk_progress,          \* PROGRESS_FILE: [st, data], data the JSON document in it
    disk_output,            \* OUTPUT_FILE: [st, count, results], as the JSON in it
    orch,                   \* where run_scraper is: none, gather, final_save, save_results
    resume,                 \* --resume of the current run
    progress_data,          \* the dict shared by the workers and the saver
    queue,                  \* asyncio.Queue, positions in restaurants
    pc,                     \* per worker: off, launching, fetching, pacing, done, crashed
    cur,                    \* per worker: the position it holds, 0 for none
    broken,                 \* per worker: its page fails every goto from now on
    progress,               \* the ProgressTracker the workers share
    saver,                  \* save_periodically: off, sleeping, writing, exited, cancelled, failed
    enqueued,               \* history: the queue as first filled in this run
    claimed,                \* history: the positions get_nowait handed out in this run
    loaded_ids,             \* history: scraped_ids as loaded at the start of this run
    last_fetch,             \* history: <<w, outcome>> when the last step ended a scrape
    last_exit,              \* history: running, or how the last process ended: never,
                            \*   completed, killed, aborted, nothing_to_do, load_failed,
                            \*   save_failed, interrupted
    ckpt_done,              \* history: the saver completed a write in this run
    killed_after_ckpt,      \* history: a fresh run was killed with a whole checkpoint on disk
    resumed_after_kill,     \* history: this run resumes such a killed run
    fn,                     \* a function called on its own: none, or its name
    fn_arg,                 \* the arguments of that call
    fn_ret                  \* what the call returned

vars == << restaurants, sample_size, prioritize_unspecified, disk_progress, disk_output,
           orch, resume, progress_data, queue, pc, cur, broken, progress, saver, enqueued,
           claimed,
           loaded_ids, last_fetch, last_exit, ckpt_done, killed_after_ckpt,
           resumed_after_kill, fn, fn_arg, fn_ret >>

config == << restaurants, sample_size, prioritize_unspecified >>
workers == << pc, cur, broken, progress >>
run_history == << enqueued, claimed, loaded_ids, ckpt_done, resumed_after_kill >>
calls == << fn, fn_arg, fn_ret >>

AbsentProgress == [st |-> "absent", data |-> EmptyProgress]
AbsentOutput == [st |-> "absent", count |-> 0, results |-> <<>>]

Init ==
    /\ restaurants \in InputLists
    /\ sample_size \in SampleSizes
    /\ prioritize_unspecified \in BOOLEAN
    /\ disk_progress = AbsentProgress
    /\ disk_output = AbsentOutput
    /\ orch = "none"
    /\ resume = FALSE
    /\ progress_data = EmptyProgress
    /\ queue = <<>>
    /\ pc = [w \in Workers |-> "off"]
    /\ cur = [w \in Workers |-> 0]
    /\ broken = [w \in Workers |-> FALSE]
    /\ progress = ProgressTracker(0)
    /\ saver = "off"
    /\ enqueued = <<>>
    /\ claimed = <<>>
    /\ loaded_ids = <<>>
    /\ last_fetch = <<>>
    /\ last_exit = "never"
    /\ ckpt_done = FALSE
    /\ killed_after_ckpt = FALSE
    /\ resumed_after_kill = FALSE
    /\ fn = "none"
    /\ fn_arg = <<>>
    /\ fn_ret = <<>>

\* The process is gone: its memory with it.
ProcessEnds(how) ==
    /\ orch' = "none"
    /\ resume' = FALSE
    /\ last_exit' = how
    /\ progress_data' = EmptyProgress
    /\ queue' = <<>>
    /\ pc' = [w \in Workers |-> "off"]
    /\ cur' = [w \in Workers |-> 0]
    /\ broken' = [w \in Workers |-> FALSE]
    /\ progress' = ProgressTracker(0)
    /\ saver' = "off"
    /\ enqueued' = <<>>
    /\ claimed' = <<>>
    /\ loaded_ids' = <<>>
    /\ last_fetch' = <<>>
    /\ ckpt_done' = FALSE
    /\ resumed_after_kill' = FALSE

\* --------------------------------------------------- load_progress, start

\* json.load raises on a file that is no complete JSON document.
LoadFails(res) == res /\ disk_progress.st = "partial"

\* load_progress() if resume else the empty dict
load_progress(res) ==
    IF res /\ disk_progress.st = "ok" THEN json_load(disk_progress.data) ELSE EmptyProgress

\* run_scraper up to the first await of gather: load, filter, order, sample,
\* fill the queue, create n workers and the saver.
StartRun(res, n) ==
    LET loaded == load_progress(res)
        remaining == Remaining(restaurants, loaded.scraped_ids,
                               prioritize_unspecified, sample_size)
    IN  /\ orch = "none"
        /\ ~LoadFails(res)
        /\ remaining # <<>>
        /\ resume' = res
        /\ progress_data' = loaded
        /\ queue' = remaining
        /\ pc' = [w \in Workers |-> IF w <= n THEN "launching" ELSE "off"]
        /\ cur' = [w \in Workers |-> 0]
        /\ broken' = [w \in Workers |-> FALSE]
        /\ progress' = ProgressTracker(Len(remaining))
        /\ saver' = "sleeping"
        /\ orch' = "gather"
        /\ enqueued' = remaining
        /\ claimed' = <<>>
        /\ loaded_ids' = loaded.scraped_ids
        /\ last_fetch' = <<>>
        /\ ckpt_done' = FALSE
        /\ resumed_after_kill' = (res /\ killed_after_ckpt)
        /\ killed_after_ckpt' = FALSE
        /\ last_exit' = "running"
        /\ UNCHANGED << config, calls, disk_progress, disk_output >>

\* "No restaurants to scrape!": run_scraper returns before anything is written.
StartRunNothingToDo(res) ==
    /\ orch = "none"
    /\ ~LoadFails(res)
    /\ Remaining(restaurants, load_progress(res).scraped_ids,
                 prioritize_unspecified, sample_size) = <<>>
    /\ ProcessEnds("nothing_to_do")
    /\ killed_after_ckpt' = FALSE
    /\ UNCHANGED << config, calls, disk_progress, disk_output >>

\* json.load raises JSONDecodeError out of run_scraper.
StartRunLoadFails(res) ==
    /\ orch = "none"
    /\ LoadFails(res)
    /\ ProcessEnds("load_failed")
    /\ killed_after_ckpt' = FALSE
    /\ UNCHANGED << config, calls, disk_progress, disk_output >>

\* ------------------------------------------------------------------ worker

\* A synchronous file write holds the event loop: no coroutine runs meanwhile.
LoopFree == orch = "gather" /\ saver # "writing"

\* build_search_query: re.sub on a name that is None raises TypeError, before
\* the try of scrape_restaurant is entered.
QueryBuilds(r) == ~r.name_is_none

\* The worker loop from the end of a sleep (or of the browser launch) to its
\* next suspension: get_nowait, then scrape_restaurant up to page.goto.
Take(w) ==
    /\ LoopFree
    /\ pc[w] \in {"launching", "pacing"}
    /\ IF queue = <<>>
       THEN /\ pc' = [pc EXCEPT ![w] = "done"]
            /\ UNCHANGED << queue, cur, claimed >>
       ELSE /\ queue' = Tail(queue)
            /\ claimed' = Append(claimed, Head(queue))
            /\ IF QueryBuilds(restaurants[Head(queue)])
               THEN /\ pc' = [pc EXCEPT ![w] = "fetching"]
                    /\ cur' = [cur EXCEPT ![w] = Head(queue)]
               ELSE /\ pc' = [pc EXCEPT ![w] = "crashed"]
                    /\ cur' = [cur EXCEPT ![w] = 0]
    /\ last_fetch' = <<>>
    /\ UNCHANGED << config, calls, disk_progress, disk_output, orch, resume, progress_data,
                    broken, progress, saver, enqueued, loaded_ids, last_exit, ckpt_done,
                    killed_after_ckpt, resumed_after_kill >>

\* What the page can answer: the source's answer for the record, or the
\* session dies under the call; a page whose session is gone fails every goto.
PossibleOutcomes(w) ==
    IF broken[w] THEN {"goto_error"} ELSE {restaurants[cur[w]].answer, "session_lost"}

\* A worker that goes back to get_nowait without its sleep.
Fetch_NoDelay(w, outcome) ==
    /\ LoopFree
    /\ pc[w] = "fetching"
    /\ outcome \in PossibleOutcomes(w)
    /\ LET r == restaurants[cur[w]]
       IN  progress_data' = RecordOutcome(progress_data, restaurant_id(r), ScrapeResult(r, outcome))
    /\ pc' = [pc EXCEPT ![w] = "launching"]
    /\ cur' = [cur EXCEPT ![w] = 0]
    /\ broken' = [broken EXCEPT ![w] = @ \/ outcome = "session_lost"]
    /\ progress' = update(progress, outcome = "found", Duration(outcome))
    /\ last_fetch' = <<w, outcome>>
    /\ UNCHANGED << config, calls, disk_progress, disk_output, orch, resume, queue, saver,
                    run_history, last_exit, killed_after_ckpt >>

\* The rest of scrape_restaurant and the worker's recording, up to the pacing
\* sleep (asyncio.sleep(delay), delay at least MIN_DELAY): both except clauses
\* turn the failure into found = False.
Fetch(w, outcome) ==
    /\ LoopFree
    /\ pc[w] = "fetching"
    /\ outcome \in PossibleOutcomes(w)
    /\ LET r == restaurants[cur[w]]
       IN  progress_data' = RecordOutcome(progress_data, restaurant_id(r), ScrapeResult(r, outcome))
    /\ pc' = [pc EXCEPT ![w] = "pacing"]
    /\ cur' = [cur EXCEPT ![w] = 0]
    /\ broken' = [broken EXCEPT ![w] = @ \/ outcome = "session_lost"]
    /\ progress' = update(progress, outcome = "found", Duration(outcome))
    /\ last_fetch' = <<w, outcome>>
    /\ UNCHANGED << config, calls, disk_progress, disk_output, orch, resume, queue, saver,
                    run_history, last_exit, killed_after_ckpt >>

\* ------------------------------------------------- save_progress, the saver

\* open(PROGRESS_FILE, 'w'): the file is truncated before a byte is written.
Truncated == [st |-> "partial", data |-> EmptyProgress]

\* A write that leaves the failed list out of the document.
Dumped_WithoutFailed(pd) == [st |-> "ok", data |-> json_dump([pd EXCEPT !.failed = <<>>])]

\* json.dump(progress, f) and the close.
Dumped(pd) == [st |-> "ok", data |-> json_dump(pd)]

AllDone == \A w \in Workers : pc[w] \in {"off", "done", "crashed"}

\* save_periodically wakes from its sleep and enters save_progress.
SaverWake ==
    /\ LoopFree
    /\ saver = "sleeping"
    /\ saver' = "writing"
    /\ disk_progress' = Truncated
    /\ last_fetch' = <<>>
    /\ UNCHANGED << config, calls, disk_output, orch, resume, progress_data, queue, workers,
                    run_history, last_exit, killed_after_ckpt >>

\* save_progress returns; the loop tests all(w.done()) and sleeps again or ends.
SaverDump ==
    /\ orch = "gather"
    /\ saver = "writing"
    /\ disk_progress' = Dumped(progress_data)
    /\ saver' = IF AllDone THEN "exited" ELSE "sleeping"
    /\ ckpt_done' = TRUE
    /\ last_fetch' = <<>>
    /\ UNCHANGED << config, calls, disk_output, orch, resume, progress_data, queue, workers,
                    enqueued, claimed, loaded_ids, resumed_after_kill, last_exit,
                    killed_after_ckpt >>

\* save_progress raises OSError inside save_periodically: open() refuses (the
\* file is left as it was) or the write under json.dump fails (the file stays
\* truncated). The exception ends the saver task and is stored in it; nothing
\* awaits save_task, so nothing else learns of it.
SaverWriteFails ==
    /\ orch = "gather"
    /\ \/ /\ saver = "sleeping"
          /\ LoopFree
          /\ UNCHANGED disk_progress
       \/ /\ saver = "writing"
          /\ UNCHANGED disk_progress
    /\ saver' = "failed"
    /\ last_fetch' = <<>>
    /\ UNCHANGED << config, calls, disk_output, orch, resume, progress_data, queue, workers,
                    run_history, last_exit, killed_after_ckpt >>

\* ------------------------------------------------- run_scraper, after gather

\* A return from gather that leaves the saver task as it is.
GatherReturns_NoCancel ==
    /\ LoopFree
    /\ \A w \in Workers : pc[w] \in {"off", "done"}
    /\ orch' = "final_save"
    /\ disk_progress' = Truncated
    /\ last_fetch' = <<>>
    /\ UNCHANGED << config, calls, disk_output, resume, progress_data, queue, workers,
                    saver, run_history, last_exit, killed_after_ckpt >>

\* gather returns: save_task.cancel(), then the final save_progress opens the file.
GatherReturns ==
    /\ LoopFree
    /\ \A w \in Workers : pc[w] \in {"off", "done"}
    /\ orch' = "final_save"
    /\ saver' = IF saver \in {"exited", "failed"} THEN saver ELSE "cancelled"
    /\ disk_progress' = Truncated
    /\ last_fetch' = <<>>
    /\ UNCHANGED << config, calls, disk_output, resume, progress_data, queue, workers,
                    run_history, last_exit, killed_after_ckpt >>

\* The final save_progress completes; save_results opens OUTPUT_FILE.
FinalDump ==
    /\ orch = "final_save"
    /\ orch' = "save_results"
    /\ disk_progress' = Dumped(progress_data)
    /\ disk_output' = [st |-> "partial", count |-> 0, results |-> <<>>]
    /\ UNCHANGED << config, calls, resume, progress_data, queue, workers, saver, run_history,
                    last_fetch, last_exit, killed_after_ckpt >>

\* A final save whose failure is caught and passed over: save_results runs.
FinalSaveFails_Swallowed ==
    /\ orch = "final_save"
    /\ orch' = "save_results"
    /\ disk_output' = [st |-> "partial", count |-> 0, results |-> <<>>]
    /\ UNCHANGED << config, calls, disk_progress, resume, progress_data, queue, workers, saver,
                    run_history, last_fetch, last_exit, killed_after_ckpt >>

\* The final save_progress raises OSError, at open() when gather has returned
\* or under json.dump: the exception leaves run_scraper, save_results is not
\* reached.
FinalSaveFails ==
    /\ \/ /\ LoopFree
          /\ \A w \in Workers : pc[w] \in {"off", "done"}
       \/ orch = "final_save"
    /\ ProcessEnds("save_failed")
    /\ UNCHANGED << config, calls, disk_progress, disk_output, killed_after_ckpt >>

\* A save_results that is handed every outcome.
ResultsDump_AllOutcomes ==
    /\ orch = "save_results"
    /\ disk_output' = [st |-> "ok", count |-> Len(progress_data.results),
                       results |-> json_dump(progress_data).results
                                       \o json_dump(progress_data).failed]
    /\ ProcessEnds("completed")
    /\ UNCHANGED << config, calls, disk_progress, killed_after_ckpt >>

\* save_results completes, the summary is printed, the process exits.
ResultsDump ==
    /\ orch = "save_results"
    /\ disk_output' = [st |-> "ok", count |-> Len(progress_data.results),
                       results |-> json_dump(progress_data).results]
    /\ ProcessEnds("completed")
    /\ UNCHANGED << config, calls, disk_progress, killed_after_ckpt >>

\* gather re-raises a worker's exception: run_scraper ends there, asyncio.run
\* cancels the other tasks, nothing more is written.
GatherRaises ==
    /\ LoopFree
    /\ \E w \in Workers : pc[w] = "crashed"
    /\ ProcessEnds("aborted")
    /\ UNCHANGED << config, calls, disk_progress, disk_output, killed_after_ckpt >>

\* SIGINT while run_scraper waits in gather: the main task is cancelled, the
\* CancelledError leaves gather and run_scraper (neither catches it), the
\* worker tasks and the saver are cancelled at their awaits. No handler, no
\* finally: what the workers held is dropped and nothing is written.
Interrupt ==
    /\ LoopFree
    /\ ProcessEnds("interrupted")
    /\ UNCHANGED << config, calls, disk_progress, disk_output, killed_after_ckpt >>

\* The process is killed, at any point.
Kill ==
    /\ orch # "none"
    /\ killed_after_ckpt' = (~resume /\ ckpt_done /\ disk_progress.st = "ok")
    /\ ProcessEnds("killed")
    /\ UNCHANGED << config, calls, disk_progress, disk_output >>

Next ==
    \/ \E res \in BOOLEAN, n \in Workers : StartRun(res, n)
    \/ \E res \in BOOLEAN : StartRunNothingToDo(res)
    \/ \E res \in BOOLEAN : StartRunLoadFails(res)
    \/ \E w \in Workers : Take(w)
    \/ \E w \in Workers : \E outcome \in Outcomes : Fetch(w, outcome)
    \/ SaverWake
    \/ SaverDump
    \/ SaverWriteFails
    \/ GatherReturns
    \/ FinalDump
    \/ FinalSaveFails
    \/ ResultsDump
    \/ GatherRaises
    \/ Interrupt
    \/ Kill

Spec == Init /\ [][Next]_vars

\* ---------------------------------------------- one run, left to itself

\* The first run of a fresh start.
StartOnce(res, n) == last_exit = "never" /\ StartRun(res, n)

\* One run that nothing outside stops: no kill, no signal, the final save
\* does not fail.
NextRun ==
    \/ \E res \in BOOLEAN, n \in Workers : StartOnce(res, n)
    \/ \E w \in Workers : Take(w)
    \/ \E w \in Workers : \E outcome \in Outcomes : Fetch(w, outcome)
    \/ SaverWake
    \/ SaverDump
    \/ SaverWriteFails
    \/ GatherReturns
    \/ FinalDump
    \/ ResultsDump
    \/ GatherRaises

\* The event loop runs every coroutine that is ready, again and again: a
\* worker whose sleep or launch has ended takes its step, every page.goto and
\* extraction returns, a synchronous write ends, gather returns or raises once
\* its tasks are done.
FairRun ==
    /\ \A w \in Workers : SF_vars(Take(w))
    /\ \A w \in Workers : SF_vars(\E outcome \in Outcomes : Fetch(w, outcome))
    /\ WF_vars(SaverDump)
    /\ SF_vars(GatherReturns)
    /\ SF_vars(GatherRaises)
    /\ WF_vars(FinalDump)
    /\ WF_vars(ResultsDump)

SpecRun == Init /\ [][NextRun]_vars /\ FairRun

\* ------------------------------------- similarity, the confidence verdict

\* similarity(a, b) as the fraction << numerator, denominator >>.  A text is
\* given by its length, 0 for None or ''; matches is the number of matching
\* characters SequenceMatcher finds, ratio() being 2.0 * matches / (la + lb).
similarity(a, b, matches) ==
    IF a = 0 \/ b = 0 THEN << 0, 1 >> ELSE << 2 * matches, a + b >>

\* x > num/den and x >= num/den for a fraction x
Gt(x, num, den) == x[1] * den > num * x[2]
Ge(x, num, den) == x[1] * den >= num * x[2]

\* A verdict whose thresholds are reached, not exceeded.
confident_match_AtLeast(name_sim, addr_sim) ==
    Ge(name_sim, 9, 10) \/ (Ge(name_sim, 5, 10) /\ Ge(addr_sim, 8, 10))

\* name_sim > 0.9 or (name_sim > 0.5 and addr_sim > 0.8)
confident_match(name_sim, addr_sim) ==
    Gt(name_sim, 9, 10) \/ (Gt(name_sim, 5, 10) /\ Gt(addr_sim, 8, 10))

\* The block of scrape_restaurant under if info['google_name'].
Verdict(q) ==
    LET name_sim == similarity(q.name, q.google_name, q.name_matches)
        addr_sim == IF q.google_address # 0 /\ q.address # 0
                    THEN similarity(q.address, q.google_address, q.address_matches)
                    ELSE << 0, 1 >>
    IN  confident_match(name_sim, addr_sim)

\* A single-stream verdict that leaves the exact match out.
confident_match_single_Band(name_sim) ==
    Gt(name_sim, 7, 10) /\ ~Ge(name_sim, 1, 1)

\* scrape_google_maps.py: name_sim > 0.7
confident_match_single(name_sim) == Gt(name_sim, 7, 10)

\* The block of the single-stream scrape_restaurant under if info['google_name'].
VerdictSingle(q) ==
    confident_match_single(similarity(q.name, q.google_name, q.name_matches))

Min(a, b) == IF a <= b THEN a ELSE b

\* A call for a found outcome: google_name is a non-empty text, the matching
\* characters are no more than the shorter text has.
VerdictInput(q) ==
    \E n \in 0..MaxLen, g \in 1..MaxLen, a \in 0..MaxLen, ga \in 0..MaxLen :
        \E m \in 0..Min(n, g), am \in 0..Min(a, ga) :
            q = [kind |-> "verdict", name |-> n, google_name |-> g, name_matches |-> m,
                 address |-> a, google_address |-> ga, address_matches |-> am]

\* ------------------------------------- save_progress, load_progress alone

RECURSIVE Strs(_)
\* The texts of at most n characters over a letter, the quote, the backslash.
Strs(n) ==
    IF n = 0 THEN {""}
    ELSE Strs(n - 1) \cup { t \o c : t \in Strs(n - 1), c \in {"a", Quote, Backslash} }

Names == Strs(MaxStr) \cup {"true"}

\* ProgressStates of at most one entry per list.
ProgressInputs ==
    LET rec(n) == Entity(n, "1", "Thai", FALSE, "found")
        ids == {<<>>} \cup { << restaurant_id(rec(n)) >> : n \in Names }
        oks == {<<>>} \cup { << ScrapeResult(rec(n), "found") >> : n \in Names }
        kos == {<<>>} \cup { << ScrapeResult(rec(n), o) >> : n \in Names, o \in {"no_name", "goto_error"} }
    IN  { [kind |-> "progress",
           progress |-> [scraped_ids |-> i, results |-> r, failed |-> f]] :
            i \in ids, r \in oks, f \in kos }

\* Lists of up to MaxQueue distinct records, two of them of an unspecified
\* category, with some of their keys already in the checkpoint.
QueuePool ==
    << Entity("b", "1", "Asian (Unspecified)", FALSE, "found"),
       Entity("a", "1", "Thai", FALSE, "found"),
       Entity("b", "2", "Unspecified", FALSE, "found"),
       Entity("a", "2", "Thai", FALSE, "found") >>

QueueInputs ==
    LET lists == { q \in UNION { [1..n -> 1..Len(QueuePool)] : n \in 0..MaxQueue } :
                     \A x, y \in 1..Len(q) : x # y => q[x] # q[y] }
        ids == { <<>>, << "a|1" >>, << "b|1" >>, << "a|1", "b|2" >> }
    IN  { [kind |-> "queue", restaurants |-> [x \in 1..Len(q) |-> QueuePool[q[x]]],
           scraped_ids |-> i, prioritize_unspecified |-> p] :
            q \in lists, i \in ids, p \in BOOLEAN }

\* Names and addresses that may hold the separator of the key.
RECURSIVE KeyStrs(_)
KeyStrs(n) ==
    IF n = 0 THEN {""}
    ELSE KeyStrs(n - 1) \cup { t \o c : t \in KeyStrs(n - 1), c \in {"a", "|"} }

\* Two records: the first one is in the checkpoint, the second in the input.
KeyInputs ==
    { [kind |-> "keys",
       done |-> Entity(n1, a1, "Thai", FALSE, "found"),
       next |-> Entity(n2, a2, "Thai", FALSE, "found")] :
        n1 \in KeyStrs(MaxStr), a1 \in KeyStrs(MaxStr),
        n2 \in KeyStrs(MaxStr), a2 \in KeyStrs(MaxStr) }

InitCalls ==
    /\ restaurants = SubSeq(Catalogue, 1, MaxEntities)
    /\ sample_size = 0
    /\ prioritize_unspecified = TRUE
    /\ disk_progress = AbsentProgress
    /\ disk_output = AbsentOutput
    /\ orch = "none"
    /\ resume = FALSE
    /\ progress_data = EmptyProgress
    /\ queue = <<>>
    /\ pc = [w \in Workers |-> "off"]
    /\ cur = [w \in Workers |-> 0]
    /\ broken = [w \in Workers |-> FALSE]
    /\ progress = ProgressTracker(0)
    /\ saver = "off"
    /\ enqueued = <<>>
    /\ claimed = <<>>
    /\ loaded_ids = <<>>
    /\ last_fetch = <<>>
    /\ last_exit = "never"
    /\ ckpt_done = FALSE
    /\ killed_after_ckpt = FALSE
    /\ resumed_after_kill = FALSE
    /\ fn = "none"
    /\ \/ fn_arg \in ProgressInputs
       \/ VerdictInput(fn_arg)
       \/ fn_arg = [kind |-> "tracker", total |-> MaxUpdates]
       \/ fn_arg \in QueueInputs
       \/ fn_arg \in KeyInputs
    /\ fn_ret = <<>>

run_state == << config, disk_output, orch, resume, progress_data, queue, workers, saver,
                run_history, last_fetch, last_exit, killed_after_ckpt >>

\* scrape_restaurant computes confident_match for a found place.
CallVerdict ==
    /\ fn = "none" /\ fn_arg.kind = "verdict"
    /\ fn' = "confident_match"
    /\ fn_ret' = Verdict(fn_arg)
    /\ UNCHANGED << run_state, disk_progress, fn_arg >>

\* The single-stream scrape_restaurant computes confident_match.
CallVerdictSingle ==
    /\ fn = "none" /\ fn_arg.kind = "verdict"
    /\ fn' = "confident_match_single"
    /\ fn_ret' = VerdictSingle(fn_arg)
    /\ UNCHANGED << run_state, disk_progress, fn_arg >>

\* save_progress(p), run to its end.
CallSaveProgress ==
    /\ fn = "none" /\ fn_arg.kind = "progress"
    /\ fn' = "save_progress"
    /\ disk_progress' = Dumped(fn_arg.progress)
    /\ UNCHANGED << run_state, fn_arg, fn_ret >>

\* load_progress() after it.
CallLoadProgress ==
    /\ fn = "save_progress"
    /\ fn' = "load_progress"
    /\ fn_ret' = load_progress(TRUE)
    /\ UNCHANGED << run_state, disk_progress, fn_arg >>

\* progress = ProgressTracker(len(remaining))
CallProgressTracker ==
    /\ fn = "none" /\ fn_arg.kind = "tracker"
    /\ fn' = "ProgressTracker"
    /\ fn_ret' = [self |-> ProgressTracker(fn_arg.total), value |-> <<>>]
    /\ UNCHANGED << run_state, disk_progress, fn_arg >>

\* progress.update(found=..., duration=...); the k-th call is given k seconds.
CallUpdate ==
    /\ fn \in {"ProgressTracker", "update", "print_status"}
    /\ fn_ret.self.completed < fn_ret.self.total
    /\ \E found \in BOOLEAN :
          LET duration == fn_ret.self.completed + 1
          IN  /\ fn_arg' = [kind |-> "tracker", total |-> fn_arg.total, self |-> fn_ret.self,
                            found |-> found, duration |-> duration]
              /\ fn_ret' = [self |-> update(fn_ret.self, found, duration), value |-> <<>>]
    /\ fn' = "update"
    /\ UNCHANGED << run_state, disk_progress >>

\* progress.print_status(): get_rate and get_eta, then the status line.
CallPrintStatus ==
    /\ fn = "update"
    /\ fn' = "print_status"
    /\ fn_arg' = [kind |-> "tracker", total |-> fn_arg.total, self |-> fn_ret.self]
    /\ fn_ret' = [self |-> fn_ret.self,
                  value |-> [rate |-> get_rate(fn_ret.self), eta |-> get_eta(fn_ret.self)]]
    /\ UNCHANGED << run_state, disk_progress >>

\* run_scraper builds its task list with no sample limit (--all): the filter by
\* the loaded keys, then the reordering.
CallRemaining ==
    /\ fn = "none" /\ fn_arg.kind = "queue"
    /\ fn' = "remaining"
    /\ fn_ret' = Remaining(fn_arg.restaurants, fn_arg.scraped_ids,
                           fn_arg.prioritize_unspecified, 0)
    /\ UNCHANGED << run_state, disk_progress, fn_arg >>

\* The worker records the key of one record; a later run filters another
\* record against it.
CallFilterScraped ==
    /\ fn = "none" /\ fn_arg.kind = "keys"
    /\ fn' = "filter_scraped"
    /\ fn_ret' = FilterScraped(<< fn_arg.next >>, << restaurant_id(fn_arg.done) >>)
    /\ UNCHANGED << run_state, disk_progress, fn_arg >>

NextCalls ==
    \/ CallRemaining
    \/ CallFilterScraped
    \/ CallProgressTracker
    \/ CallUpdate
    \/ CallPrintStatus
    \/ CallVerdict
    \/ CallVerdictSingle
    \/ CallSaveProgress
    \/ CallLoadProgress

SpecCalls == InitCalls /\ [][NextCalls]_vars

\* ------------------------------------------------------------------ claims

Key(i) == restaurant_id(restaurants[i])

NoRepeat(s) == \A i \in 1..Len(s) : \A j \in 1..Len(s) : i # j => s[i] # s[j]

\* The input holds no two records of one (name, address).
DistinctKeys == NoRepeat([i \in 1..Len(restaurants) |-> Key(i)])

\* The tasks one uninterrupted fresh run in this mode enqueues.
OrigTasks == Remaining(restaurants, <<>>, prioritize_unspecified, sample_size)

\* C1: when gather returns, get_nowait has handed out exactly the M enqueued
\* tasks and no identity key was handed out twice.
C1_NoDoubleProcessing ==
    orch = "final_save" =>
        /\ Len(claimed) = Len(enqueued)
        /\ NoRepeat([i \in 1..Len(claimed) |-> Key(claimed[i])])

\* C2: at every scheduling point scraped_ids has as many entries as results
\* and failed together.
C2_IdsMatchOutcomes ==
    Len(progress_data.scraped_ids)
        = Len(progress_data.results) + Len(progress_data.failed)

C2_Witness ==
    /\ orch = "gather"
    /\ Len(progress_data.results) >= 1
    /\ Len(progress_data.failed) >= 1

\* C3: every key with an outcome in results or failed is in scraped_ids exactly
\* once: scraped_ids holds no key twice.
C3_KeysUnique ==
    /\ NoRepeat(progress_data.scraped_ids)
    /\ \A o \in Range(progress_data.results) \cup Range(progress_data.failed) :
          Cardinality({ i \in 1..Len(progress_data.scraped_ids) :
                          progress_data.scraped_ids[i]
                              = o.original_name \o "|" \o o.original_address }) = 1

\* C4: a fresh run killed after a checkpoint and resumed in the same mode ends
\* with the completed keys of one uninterrupted run, none twice, none lost
\* (stated for inputs of distinct keys).
C4_IdempotentResume ==
    (DistinctKeys /\ resumed_after_kill /\ orch = "save_results") =>
        /\ Range(progress_data.scraped_ids) = { Key(i) : i \in Range(OrigTasks) }
        /\ NoRepeat(progress_data.scraped_ids)

\* C5: in a resumed run no record whose key was loaded from the checkpoint is
\* enqueued or claimed.
C5_NoRedo ==
    resume =>
        \A i \in Range(enqueued) \cup Range(claimed) \cup Range(queue)
                 \cup { cur[w] : w \in { v \in Workers : cur[v] # 0 } } :
            Key(i) \notin Range(loaded_ids)

C5_Witness ==
    /\ resume
    /\ loaded_ids # <<>>
    /\ \E w \in Workers : pc[w] = "fetching"

\* C6: a run resumed from a periodic checkpoint of k of the M original tasks,
\* the rest pending, enqueues exactly M - k tasks (stated for inputs of
\* distinct keys).
C6_ResumeQueueSize ==
    (DistinctKeys /\ resumed_after_kill /\ orch = "gather"
        /\ Len(loaded_ids) < Len(OrigTasks)) =>
        Len(enqueued) + Len(loaded_ids) = Len(OrigTasks)

\* C7: a scrape that fails transiently adds one found = false outcome to failed,
\* leaves results alone and leaves the worker in its loop, from where it takes
\* the next task.
C7_TransientFailureRecorded ==
    /\ [][ \A w \in Workers :
             (pc[w] = "fetching" /\ last_fetch' # <<>> /\ last_fetch'[1] = w
                 /\ last_fetch'[2] \in TransientFailures) =>
                /\ Len(progress_data'.failed) = Len(progress_data.failed) + 1
                /\ ~progress_data'.failed[Len(progress_data'.failed)].found
                /\ progress_data'.results = progress_data.results
                /\ pc'[w] = "pacing" ]_vars
    /\ [](\A w \in Workers : (pc[w] = "pacing" /\ LoopFree) => ENABLED Take(w))

\* One worker alone has recorded a failure and holds the next task.
C7_Witness ==
    /\ ~resume
    /\ pc[1] = "fetching"
    /\ \A w \in Workers \ {1} : pc[w] = "off"
    /\ ~broken[1]
    /\ Len(progress_data.failed) >= 1

\* C8: no error raised while a worker holds a task leaves worker(): no worker
\* task ends with an exception and no run ends on one before the final flush.
C8_ErrorsCaughtAtWorker ==
    /\ \A w \in Workers : pc[w] # "crashed"
    /\ last_exit # "aborted"

\* C9: a worker whose session has become unusable claims no further task.
C9_BrokenWorkerStops ==
    \A w \in Workers : broken[w] => pc[w] # "fetching"

\* C10: whenever the process is gone the progress file holds a whole
\* checkpoint (or was never written), never a truncated one.
C10_AtomicCheckpoint ==
    orch = "none" => disk_progress.st \in {"absent", "ok"}

\* The identity key an outcome was recorded for.
OutcomeKey(o) == o.original_name \o "|" \o o.original_address

Count(s, x) == Cardinality({ i \in 1..Len(s) : s[i] = x })

KeysOf(outcomes) == [i \in 1..Len(outcomes) |-> OutcomeKey(outcomes[i])]

\* Every key has as many outcomes as it has entries in scraped_ids.
Consistent(pd) ==
    /\ Len(pd.scraped_ids) = Len(pd.results) + Len(pd.failed)
    /\ \A k \in Range(pd.scraped_ids) \cup Range(KeysOf(pd.results))
                \cup Range(KeysOf(pd.failed)) :
          Count(pd.scraped_ids, k) = Count(KeysOf(pd.results), k) + Count(KeysOf(pd.failed), k)

\* C11: a checkpoint the periodic saver wrote while the workers run holds a
\* consistent snapshot: as many keys as outcomes, no key without its outcome,
\* no outcome without its key.
C11_ConsistentCheckpoint ==
    (orch = "gather" /\ ckpt_done /\ disk_progress.st = "ok") =>
        Consistent(json_load(disk_progress.data))

\* The saver's checkpoint holds a success and a failure while a worker scrapes.
C11_Witness ==
    /\ orch = "gather" /\ ckpt_done /\ disk_progress.st = "ok"
    /\ Len(disk_progress.data.results) >= 1
    /\ Len(disk_progress.data.failed) >= 1
    /\ \E w \in Workers : pc[w] = "fetching"

\* C12: the result file is written only after every worker has exited and the
\* final save_progress has written the whole ProgressState; a final save that
\* fails leaves the result file untouched.
C12_ResultsAfterFinalCheckpoint ==
    /\ [][ disk_output' # disk_output =>
             /\ orch \in {"final_save", "save_results"}
             /\ \A w \in Workers : pc[w] \in {"off", "done"}
             /\ disk_progress' = Dumped(progress_data) ]_vars
    /\ [][ (last_exit' = "save_failed" /\ last_exit # "save_failed") =>
             disk_output' = disk_output ]_vars

\* A run has completed: whole checkpoint and a result file with a success.
C12_Witness ==
    /\ orch = "none" /\ last_exit = "completed"
    /\ disk_progress.st = "ok"
    /\ disk_output.st = "ok" /\ disk_output.count >= 1

\* C13: after a run that returned normally, in any mode, both files are there
\* whole: the checkpoint and the result file.
C13_BothArtifactsWritten ==
    (orch = "none" /\ last_exit \in {"completed", "nothing_to_do"}) =>
        /\ disk_progress.st = "ok"
        /\ disk_output.st = "ok"

\* C14: the result file holds exactly the successes of ProgressState at the
\* end of the run, found = true each, count their number, and it is written
\* in the one step that completes the run.
C14_ResultsOnlySuccesses ==
    /\ [](disk_output.st = "ok" =>
             /\ \A i \in 1..Len(disk_output.results) : LoadResult(disk_output.results[i]).found
             /\ disk_output.count = Len(disk_output.results))
    /\ [][ (orch # "none" /\ orch' = "none" /\ last_exit' = "completed") =>
             /\ disk_output'.st = "ok"
             /\ [i \in 1..Len(disk_output'.results) |-> LoadResult(disk_output'.results[i])]
                    = progress_data.results
             /\ Len(progress_data.results) + Len(progress_data.failed)
                    = Len(loaded_ids) + Len(claimed) ]_vars
    /\ [][ (disk_output'.st = "ok" /\ disk_output' # disk_output) =>
             (orch = "save_results" /\ last_exit' = "completed") ]_vars

\* A completed run left a result file with a success, and a failure in the
\* checkpoint that is not in it.
C14_Witness ==
    /\ orch = "none" /\ last_exit = "completed"
    /\ disk_output.st = "ok" /\ disk_output.count >= 1
    /\ Len(disk_progress.data.failed) >= 1
    /\ disk_output.results = disk_progress.data.results

\* C15: once a periodic checkpoint write has failed, the run does not go on
\* taking tasks as if nothing had happened: it reports, aborts or retries.
C15_WriteFailureSurfaced ==
    [][ saver = "failed" => Len(claimed') <= Len(claimed) ]_vars

\* C16: no run started with --resume works from an empty ProgressState because
\* the checkpoint file is missing.
C16_ResumeNeedsCheckpoint ==
    ~(resume /\ orch # "none" /\ disk_progress.st = "absent")

\* C17: a stop signal lets every task in flight be recorded and ends the run
\* with the final persist: the checkpoint then holds what was recorded plus
\* the tasks that were in flight.
C17_CleanStop ==
    [][ (orch = "gather" /\ orch' = "none" /\ last_exit' = "interrupted"
            /\ \E w \in Workers : pc[w] = "fetching") =>
          /\ disk_progress'.st = "ok"
          /\ Len(disk_progress'.data.scraped_ids)
                = Len(progress_data.scraped_ids)
                    + Cardinality({ w \in Workers : pc[w] = "fetching" }) ]_vars

\* C18: every task handed out in this run is either still held by its worker
\* or has exactly one key entry recorded in this run, key by key.
C18_RecordedExactlyOnce ==
    orch # "none" =>
        \A k \in { Key(i) : i \in 1..Len(restaurants) } :
            Count([i \in 1..Len(claimed) |-> Key(claimed[i])], k)
                = (Count(progress_data.scraped_ids, k) - Count(loaded_ids, k))
                    + Cardinality({ w \in Workers : cur[w] # 0 /\ Key(cur[w]) = k })

\* C19: load_progress() after save_progress(p) returns the completed keys and
\* the success and failure outcomes of p.
C19_RoundTrip ==
    fn = "load_progress" =>
        /\ fn_ret.scraped_ids = fn_arg.progress.scraped_ids
        /\ fn_ret.results = fn_arg.progress.results
        /\ fn_ret.failed = fn_arg.progress.failed

\* A state with a quote and a backslash in its names went to disk and back.
C19_Witness ==
    /\ fn = "load_progress"
    /\ fn_arg.progress.scraped_ids = << Quote \o Backslash \o "|1" >>
    /\ Len(fn_arg.progress.results) = 1
    /\ Len(fn_arg.progress.failed) = 1
    /\ fn_arg.progress.failed[1].original_name = Backslash \o Quote

\* C20: the verdict of a found outcome is name_sim > 0.9 or (name_sim > 0.5
\* and addr_sim > 0.8), addr_sim being 0 when either address is absent: an
\* outcome without an address is confident exactly when name_sim > 0.9.
C20_ConfidenceRule ==
    fn = "confident_match" =>
        LET q == fn_arg
            T == q.name + q.google_name
            A == q.address + q.google_address
            name_gt(num) == q.name # 0 /\ 2 * q.name_matches * 10 > num * T
            addr_gt(num) == q.address # 0 /\ q.google_address # 0
                               /\ 2 * q.address_matches * 10 > num * A
        IN  /\ fn_ret = (name_gt(9) \/ (name_gt(5) /\ addr_gt(8)))
            /\ (q.address = 0 \/ q.google_address = 0) => (fn_ret = name_gt(9))

\* A found outcome with name_sim = 0.9 exactly and addr_sim = 0.8 exactly: not
\* confident.
C20_Witness ==
    /\ fn = "confident_match"
    /\ fn_arg.name = 10 /\ fn_arg.google_name = 10 /\ fn_arg.name_matches = 9
    /\ fn_arg.address = 5 /\ fn_arg.google_address = 5 /\ fn_arg.address_matches = 4
    /\ fn_ret = FALSE

\* C21: with the addresses fixed, a confident verdict stays confident for every
\* name similarity that is no smaller, under the parallel rule and under the
\* single-stream rule.
C21_ConfidenceMonotone ==
    (fn \in {"confident_match", "confident_match_single"} /\ fn_ret = TRUE) =>
        \A n \in 0..MaxLen, g \in 1..MaxLen :
            \A m \in 0..Min(n, g) :
                LET q2 == [fn_arg EXCEPT !.name = n, !.google_name = g, !.name_matches = m]
                    s1 == similarity(fn_arg.name, fn_arg.google_name, fn_arg.name_matches)
                    s2 == similarity(n, g, m)
                IN  s1[1] * s2[2] <= s2[1] * s1[2] =>
                        IF fn = "confident_match" THEN Verdict(q2) ELSE VerdictSingle(q2)

\* A confident single-stream verdict below an exact match.
C21_Witness ==
    /\ fn = "confident_match_single" /\ fn_ret = TRUE
    /\ fn_arg.name = 10 /\ fn_arg.google_name = 10 /\ fn_arg.name_matches = 8

\* C22: every run in which each extraction call returns comes to the point
\* where every worker has found the queue empty and left its loop, the queue
\* is empty and run_scraper is at its final flush.
C22_WorkersDrain ==
    [](orch = "gather" =>
          <>(/\ orch = "final_save"
             /\ queue = <<>>
             /\ \A w \in Workers : pc[w] \in {"off", "done"}))

TrackerCalls == {"ProgressTracker", "update", "print_status"}

\* C27: the calls on the ProgressTracker leave ProgressState, the queue and the
\* files as they are, print_status (get_rate, get_eta) leaves the tracker as
\* it is, and the window of durations holds the 50 most recent at most, the
\* oldest dropped first.
C27_ReporterReadOnly ==
    /\ [](fn \in TrackerCalls => Len(fn_ret.self.recent_times) <= 50)
    /\ [][ fn' \in TrackerCalls =>
             /\ progress_data' = progress_data
             /\ queue' = queue
             /\ disk_progress' = disk_progress ]_vars
    /\ [][ fn' = "print_status" => fn_ret'.self = fn_arg'.self ]_vars
    /\ [][ fn' = "update" =>
             LET before == fn_arg'.self.recent_times
                 after == fn_ret'.self.recent_times
             IN  after = Append(IF Len(before) = 50 THEN Tail(before) ELSE before,
                                fn_arg'.duration) ]_vars

\* The 51st update has gone in: the window holds 50 durations, the first gone.
C27_Witness ==
    /\ fn = "update"
    /\ fn_ret.self.completed = 51
    /\ Len(fn_ret.self.recent_times) = 50
    /\ fn_ret.self.recent_times[1] = 2
    /\ fn_ret.self.recent_times[50] = 51

\* new is old with one item appended.
Appended(old, new) == Len(new) = Len(old) + 1 /\ SubSeq(new, 1, Len(old)) = old

Last(q) == q[Len(q)]

\* C23: while the workers run, every change of ProgressState is one worker's
\* append step, whole: the key of the task it holds goes to scraped_ids and
\* one outcome of that same key goes to results or to failed, the lists are
\* otherwise as they were, and no other worker moves in that step.
C23_ExclusiveAppend ==
    [][ (orch = "gather" /\ orch' = "gather" /\ progress_data' # progress_data) =>
          \E w \in Workers :
             /\ pc[w] = "fetching" /\ pc'[w] = "pacing"
             /\ \A v \in Workers \ {w} : pc'[v] = pc[v] /\ cur'[v] = cur[v]
             /\ LET r == restaurants[cur[w]]
                    k == r.name \o "|" \o r.address
                    old == progress_data
                    new == progress_data'
                IN  /\ new.scraped_ids = Append(old.scraped_ids, k)
                    /\ \/ /\ Appended(old.results, new.results)
                          /\ OutcomeKey(Last(new.results)) = k
                          /\ new.failed = old.failed
                       \/ /\ Appended(old.failed, new.failed)
                          /\ OutcomeKey(Last(new.failed)) = k
                          /\ new.results = old.results ]_vars

\* Every worker is inside a scrape and an outcome is already recorded.
C23_Witness ==
    /\ orch = "gather"
    /\ \A w \in Workers : pc[w] = "fetching"
    /\ Len(progress_data.scraped_ids) >= 1

\* C24: from the return of gather on, the saver task is finished or cancelled,
\* every worker has left its loop, ProgressState stays as it is, and after the
\* final save_progress the progress file is not written again.
C24_NoWriteAfterFinalFlush ==
    /\ [](orch \in {"final_save", "save_results"} =>
             /\ saver \in {"cancelled", "exited", "failed"}
             /\ \A w \in Workers : pc[w] \in {"off", "done"})
    /\ [][ (orch \in {"final_save", "save_results"} /\ orch' # "none") =>
             progress_data' = progress_data ]_vars
    /\ [][ orch = "save_results" => disk_progress' = disk_progress ]_vars

\* The final flush is done in a run whose saver wrote a checkpoint and was
\* cancelled in its sleep.
C24_Witness ==
    /\ orch = "save_results"
    /\ saver = "cancelled"
    /\ ckpt_done
    /\ Len(progress_data.scraped_ids) >= 2

\* C26: a worker leaves a scrape only into its pacing sleep, holding nothing;
\* it enters a scrape only from the end of that sleep (or of its launch),
\* taking one task; while it scrapes it holds that one task.
C26_PacedSequential ==
    [][ \A w \in Workers :
          /\ (pc[w] = "fetching" /\ pc'[w] # "fetching" /\ orch' = "gather") =>
                (pc'[w] = "pacing" /\ cur'[w] = 0)
          /\ (pc[w] # "fetching" /\ pc'[w] = "fetching") =>
                (pc[w] \in {"launching", "pacing"} /\ cur[w] = 0 /\ cur'[w] # 0)
          /\ (pc[w] = "fetching" /\ pc'[w] = "fetching") => cur'[w] = cur[w] ]_vars

\* A worker alone is in its second scrape, the first one reported.
C26_Witness ==
    /\ pc[1] = "fetching"
    /\ \A w \in Workers \ {1} : pc[w] = "off"
    /\ Len(claimed) = 2
    /\ progress.completed = 1

\* C25: the task list holds each not-yet-completed record once and nothing
\* else; with prioritization every record whose category contains
\* 'Unspecified' comes before every other one and records of the same group
\* keep their input order; without it the input order is kept.
C25_StablePriorityOrder ==
    fn = "remaining" =>
        LET rs == fn_arg.restaurants
            q == fn_ret
            todo == { i \in 1..Len(rs) :
                        (rs[i].name \o "|" \o rs[i].address) \notin Range(fn_arg.scraped_ids) }
            U(i) == Contains(rs[i].category, "Unspecified")
        IN  /\ Range(q) = todo
            /\ Len(q) = Cardinality(todo)
            /\ \A x, y \in 1..Len(q) :
                  x < y =>
                    IF fn_arg.prioritize_unspecified
                    THEN /\ U(q[y]) => U(q[x])
                         /\ (U(q[x]) = U(q[y])) => q[x] < q[y]
                    ELSE q[x] < q[y]

\* A prioritized list in which an unspecified record overtakes a specified one
\* while one record of four is filtered out.
C25_Witness ==
    /\ fn = "remaining"
    /\ fn_arg.prioritize_unspecified
    /\ Len(fn_arg.restaurants) = 4
    /\ Len(fn_ret) = 3
    /\ \E x \in 1..2 : fn_ret[x] > fn_ret[x + 1]

\* C28: the resume filter drops a record exactly when its name and its
\* address are those of the completed record.
C28_KeyIsThePair ==
    fn = "filter_scraped" =>
        (fn_ret = <<>> <=> /\ fn_arg.next.name = fn_arg.done.name
                           /\ fn_arg.next.address = fn_arg.done.address)

IsPrefix(p, q) == Len(p) <= Len(q) /\ SubSeq(q, 1, Len(p)) = p

\* C29: a checkpoint written while the workers run holds the completed keys in
\* memory at that time, and when a run that has completed a checkpoint write is
\* killed, the file holds a whole checkpoint whose keys are a prefix of the
\* keys in memory.
C29_DurablePrefix ==
    [][ /\ (orch = "gather" /\ disk_progress' # disk_progress /\ disk_progress'.st = "ok") =>
              json_load(disk_progress'.data).scraped_ids = progress_data.scraped_ids
        /\ (orch # "none" /\ last_exit' = "killed" /\ ckpt_done) =>
              /\ disk_progress'.st = "ok"
              /\ IsPrefix(json_load(disk_progress'.data).scraped_ids,
                          progress_data.scraped_ids) ]_vars

\* The records of the input whose key was not loaded from the checkpoint.
NotDone == { i \in 1..Len(restaurants) : Key(i) \notin Range(loaded_ids) }

\* C30: a run enqueues min(sample_size, number of not-yet-completed records)
\* tasks, all of them under --all, none of them completed before; with
\* prioritization a specified record is enqueued only when every unspecified
\* one is: the sample is cut after the filter and after the ordering.
C30_SampleAfterFilter ==
    orch = "gather" =>
        /\ Len(enqueued) = IF sample_size = 0 THEN Cardinality(NotDone)
                           ELSE Min(sample_size, Cardinality(NotDone))
        /\ Range(enqueued) \subseteq NotDone
        /\ Cardinality(Range(enqueued)) = Len(enqueued)
        /\ prioritize_unspecified =>
              ((\E i \in Range(enqueued) : ~Contains(restaurants[i].category, "Unspecified"))
                 => \A j \in NotDone : Contains(restaurants[j].category, "Unspecified")
                                           => j \in Range(enqueued))

\* A run resumed with --sample 1 over a checkpoint of one key enqueues one
\* further record.
C30_Witness ==
    /\ orch = "gather" /\ resume
    /\ sample_size = 1
    /\ Len(loaded_ids) = 1
    /\ Len(enqueued) = 1

====
